---- MODULE Spec2Model ----
(***************************************************************************)
(* A model of src/src/lib.rs: parse_icc, the decoder of a hex-text         *)
(* BER-TLV stream into a map from field name to upper-cased hex value,     *)
(* with its helpers unhexify_length and get_tag_data.                      *)
(*                                                                         *)
(* A Rust &str is a sequence of UTF-8 code units.  It is modelled as a     *)
(* sequence of units: an ASCII character is a one-character string, and    *)
(* the two units of the non-ASCII character U+0149 are "<C5>" and "<89>".  *)
(* Slicing a &str out of range, or off a character boundary, panics; a     *)
(* panic is an outcome of the call like any other and is recorded in       *)
(* result.kind.                                                            *)
(***************************************************************************)
EXTENDS Integers, Sequences, FiniteSets, TLC

VARIABLES icc, parts, i, start_of_element, tag, entry,
          value_byte_length, shift_pointer, output_data, pc, result

vars == <<icc, parts, i, start_of_element, tag, entry,
          value_byte_length, shift_pointer, output_data, pc, result>>

\* ------------------------------------------------------------------ bounds
\* The longest value region, in bytes, that an input's last element carries.
MaxValueBytes == 7
\* The number of well-formed elements that may precede the last element.
MaxPrefixElements == 1

\* ---------------------------------------------------------------- strings
HexDigits == {"0","1","2","3","4","5","6","7","8","9",
              "A","B","C","D","E","F","a","b","c","d","e","f"}

\* char::to_digit(16) of one hex digit.
DigitVal(c) ==
    CASE c = "0" -> 0 [] c = "1" -> 1 [] c = "2" -> 2 [] c = "3" -> 3
      [] c = "4" -> 4 [] c = "5" -> 5 [] c = "6" -> 6 [] c = "7" -> 7
      [] c = "8" -> 8 [] c = "9" -> 9
      [] c \in {"A","a"} -> 10 [] c \in {"B","b"} -> 11
      [] c \in {"C","c"} -> 12 [] c \in {"D","d"} -> 13
      [] c \in {"E","e"} -> 14 [] c \in {"F","f"} -> 15

\* A UTF-8 continuation unit: no character starts here.
IsContinuation(u) == u \in {"<89>", "<BC>"}

\* str::is_char_boundary.
is_char_boundary(s, p) ==
    \/ p = 0
    \/ p = Len(s)
    \/ (p > 0 /\ p < Len(s) /\ ~IsContinuation(s[p + 1]))

\* Whether &s[a..b] is in range and on character boundaries; it panics
\* otherwise.
SliceOk(s, a, b) ==
    /\ a <= b
    /\ b <= Len(s)
    /\ is_char_boundary(s, a)
    /\ is_char_boundary(s, b)

\* &s[a..b], for SliceOk(s, a, b).
Slice(s, a, b) == SubSeq(s, a + 1, b)

\* char::to_uppercase of one ASCII unit.
UpperUnit(u) ==
    CASE u = "a" -> "A" [] u = "b" -> "B" [] u = "c" -> "C"
      [] u = "d" -> "D" [] u = "e" -> "E" [] u = "f" -> "F"
      [] u = "x" -> "X" [] u = "z" -> "Z"
      [] OTHER -> u

\* to_uppercase gone wrong: the text is kept in the case it was read in.
to_uppercase_kept(s) == s

\* str::to_uppercase.  U+0149 (units <C5><89>) upper-cases to the two
\* characters U+02BC 'N' (units <CA><BC> and N): the text grows by a unit.
RECURSIVE to_uppercase(_)
to_uppercase(s) ==
    IF s = << >> THEN << >>
    ELSE IF Len(s) >= 2 /\ s[1] = "<C5>" /\ s[2] = "<89>"
         THEN <<"<CA>", "<BC>", "N">> \o to_uppercase(SubSeq(s, 3, Len(s)))
         ELSE <<UpperUnit(s[1])>> \o to_uppercase(Tail(s))

\* ------------------------------------------------------- usize::from_str_radix
\* The number of hex digits of usize::MAX on a 64-bit target.
UsizeHexDigits == 16

RECURSIVE StripZeros(_)
StripZeros(ds) ==
    IF ds # << >> /\ ds[1] = "0" THEN StripZeros(Tail(ds)) ELSE ds

RECURSIVE HexValue(_)
HexValue(ds) ==
    IF ds = << >> THEN 0
    ELSE HexValue(SubSeq(ds, 1, Len(ds) - 1)) * 16 + DigitVal(ds[Len(ds)])

\* usize::from_str_radix(src, 16): one leading '+' is accepted, every other
\* unit must be a hex digit, and a value above usize::MAX is an error
\* (PosOverflow).  Every error is a ParseIntError.  The value is computed
\* in bounded integers: the inputs' numbers have at most seven
\* significant digits, or more than UsizeHexDigits.
from_str_radix(src) ==
    LET digits == IF src # << >> /\ src[1] = "+" THEN Tail(src) ELSE src
    IN  IF digits = << >> \/ \E k \in 1..Len(digits) : digits[k] \notin HexDigits
        THEN [ok |-> FALSE, val |-> 0]
        ELSE IF Len(StripZeros(digits)) > UsizeHexDigits
        THEN [ok |-> FALSE, val |-> 0]
        ELSE [ok |-> TRUE, val |-> HexValue(StripZeros(digits))]

\* ---------------------------------------------------------------- registry
NoEntry == [name |-> "", tag |-> << >>, max_length |-> 0, min_length |-> 0]

\* get_tag_data: the registry, keyed by the upper-case tag text.
get_tag_data ==
    (<<"9","F","3","3">> :>
        [name |-> "terminalcapabilities", tag |-> <<"9","F","3","3">>,
         max_length |-> 6, min_length |-> 6])

\* ------------------------------------------------------------------ results
Res(kind, text, msg) == [kind |-> kind, tag |-> text, msg |-> msg]
Running == Res("Running", << >>, "")
Panic == Res("Panic", << >>, "")
InvalidHex == Res("InvalidHex", << >>, "")
GenericError == Res("GenericError", << >>, "")
BadTag(text) == Res("BadTag", text, "")
BadLength(msg) == Res("BadLength", << >>, msg)
OkResult == Res("Ok", << >>, "")

EmptyMap == [n \in {} |-> << >>]

\* insert gone wrong: an earlier entry for k is kept.
insert_keep_first(m, k, v) ==
    [n \in DOMAIN m \cup {k} |-> IF n \in DOMAIN m THEN m[n] ELSE v]

\* HashMap::insert: the entry for k is set to v, replacing an earlier one.
insert(m, k, v) ==
    [n \in DOMAIN m \cup {k} |-> IF n = k THEN v ELSE m[n]]

\* ------------------------------------------------------------- tag decoder
\* is_two_byte gone wrong: the high bit is tested.
is_two_byte_high_bit(first_tag_bits) == first_tag_bits >= 128

\* Line 13: first_tag_bits & 31 == 31, the low five bits are all set.
is_two_byte(first_tag_bits) == first_tag_bits % 32 = 31

\* read_tag_text gone wrong: the second tag byte is parsed as hex too.
read_tag_text_validating(s, p) ==
    IF ~SliceOk(s, p, p + 2) THEN [res |-> Panic, tag |-> << >>]
    ELSE LET first_tag_byte == Slice(s, p, p + 2)
             first_tag_bits == from_str_radix(first_tag_byte)
         IN  IF ~first_tag_bits.ok THEN [res |-> InvalidHex, tag |-> << >>]
             ELSE IF is_two_byte(first_tag_bits.val)
             THEN IF ~SliceOk(s, p + 2, p + 4)
                  THEN [res |-> Panic, tag |-> << >>]
                  ELSE IF ~from_str_radix(Slice(s, p + 2, p + 4)).ok
                  THEN [res |-> InvalidHex, tag |-> << >>]
                  ELSE [res |-> Running,
                        tag |-> first_tag_byte \o Slice(s, p + 2, p + 4)]
             ELSE [res |-> Running, tag |-> first_tag_byte]

\* Lines 11-18 of parse_icc: the tag text at cursor p, 2 or 4 units.  Only
\* the first byte is parsed as hex; the second is taken as it stands.
read_tag_text(s, p) ==
    IF ~SliceOk(s, p, p + 2) THEN [res |-> Panic, tag |-> << >>]
    ELSE LET first_tag_byte == Slice(s, p, p + 2)
             first_tag_bits == from_str_radix(first_tag_byte)
         IN  IF ~first_tag_bits.ok THEN [res |-> InvalidHex, tag |-> << >>]
             ELSE IF is_two_byte(first_tag_bits.val)
             THEN IF ~SliceOk(s, p + 2, p + 4)
                  THEN [res |-> Panic, tag |-> << >>]
                  ELSE [res |-> Running,
                        tag |-> first_tag_byte \o Slice(s, p + 2, p + 4)]
             ELSE [res |-> Running, tag |-> first_tag_byte]

\* Lines 19-22 of parse_icc: the registry entry of the upper-cased tag text,
\* or BadTag carrying the text as read.
lookup(t) ==
    IF to_uppercase(t) \in DOMAIN get_tag_data
    THEN [res |-> Running, entry |-> get_tag_data[to_uppercase(t)]]
    ELSE [res |-> BadTag(t), entry |-> NoEntry]

\* ---------------------------------------------------------- length decoder
LenRes(res, len, shift) ==
    [res |-> res, length_in_bytes |-> len, shift_pointer |-> shift]

\* long_shift gone wrong: the count of length bytes is not doubled.
long_shift_undoubled(extra_bytes) == 2 + extra_bytes

\* Line 58: shift_pointer += extra_bytes * 2, from its initial 2.
long_shift(extra_bytes) == 2 + extra_bytes * 2

\* unhexify_length(slice): the decoded length in bytes and the number of
\* units the length field takes.
unhexify_length(slice) ==
    IF Len(slice) < 1
    THEN LenRes(BadLength("length is missing for this tag!"), 0, 0)
    ELSE IF ~SliceOk(slice, 0, 2) THEN LenRes(Panic, 0, 0)
    ELSE LET first_length_byte == from_str_radix(Slice(slice, 0, 2))
         IN
         IF ~first_length_byte.ok THEN LenRes(InvalidHex, 0, 0)
         ELSE IF first_length_byte.val < 128
         THEN IF first_length_byte.val < 1
              THEN LenRes(BadLength("too short"), 0, 0)
              ELSE LenRes(Running, first_length_byte.val, 2)
         ELSE LET extra_bytes == first_length_byte.val % 128
              IN
              IF ~SliceOk(slice, 2, 2 + extra_bytes * 2)
              THEN LenRes(Panic, 0, 0)
              ELSE LET extra_length == Slice(slice, 2, 2 + extra_bytes * 2)
                       length_in_bytes == from_str_radix(extra_length)
                   IN
                   IF Len(extra_length) < 1
                   THEN LenRes(BadLength("length is missing for this tag!"), 0, 0)
                   ELSE IF ~length_in_bytes.ok THEN LenRes(InvalidHex, 0, 0)
                   ELSE IF length_in_bytes.val < 1
                   THEN LenRes(BadLength("too short"), 0, 0)
                   ELSE LenRes(Running, length_in_bytes.val,
                               long_shift(extra_bytes))

\* --------------------------------------------------------- value extractor
\* after_length gone wrong: the cursor is left on the length field.
after_length_unmoved(p, shift) == p

\* Line 25: i += shift_pointer.
after_length(p, shift) == p + shift

\* Lines 26-36 of parse_icc: the value of value_byte_length bytes at cursor p
\* is sliced, upper-cased, re-measured and stored under the entry's name.
read_value(s, p, len, e, out) ==
    LET value_string_length == len * 2
    IN  IF ~SliceOk(s, p, p + value_string_length)
        THEN [res |-> Panic, out |-> out, i |-> p]
        ELSE LET value_bytes == to_uppercase(Slice(s, p, p + value_string_length))
             IN  IF Len(value_bytes) \div 2 # len
                 THEN [res |-> GenericError, out |-> out, i |-> p]
                 ELSE IF Len(value_bytes) \div 2 > e.max_length
                 THEN [res |-> GenericError, out |-> out, i |-> p]
                 ELSE [res |-> Running,
                       out |-> insert(out, e.name, value_bytes),
                       i |-> p + value_string_length]

\* ------------------------------------------------------------------ inputs
\* An input is assembled from elements, each a tag text, a length field and
\* a value region chosen independently, so that a field may be cut short,
\* malformed or at odds with the one before it.  parts records how icc was
\* assembled; no action reads it.
Element(t, l, v) == [tag |-> t, len |-> l, val |-> v]

Cycle(pattern, n) == [k \in 1..n |-> pattern[((k - 1) % Len(pattern)) + 1]]

\* Tag texts the registry knows, in either case.
KnownTagTexts == { <<"9","F","3","3">>, <<"9","f","3","3">> }

\* Tag texts that are unknown, not hex, cut short or off a character boundary.
OtherTagTexts ==
    { <<"9","F","X","X">>, <<"9","f","x","x">>, <<"1","F","3","3">>,
      <<"8","0">>, <<"9","F">>, <<"9">>, <<"Z","Z">>, <<"+","F">>,
      <<"9","F","<C5>","<89>">>, <<"9","F","3","<C5>","<89>">> }

LengthFields ==
    { << >>, <<"0">>, <<"0","0">>, <<"0","1">>, <<"0","2">>, <<"0","3">>,
      <<"0","6">>, <<"0","7">>, <<"X","X">>, <<"+","3">>,
      <<"8","0">>, <<"8","1">>, <<"8","1","0">>, <<"8","1","0","0">>,
      <<"8","1","0","1">>, <<"8","1","0","2">>, <<"8","1","0","3">>,
      <<"8","1","0","6">>, <<"8","1","0","7">>, <<"8","1","X","X">>,
      <<"8","2","0","0">>, <<"8","2","0","0","0","0">>,
      <<"8","2","0","0","0","3">>,
      <<"8","9">> \o Cycle(<<"0">>, 17) \o <<"3">>,
      <<"8","9","0","1">> \o Cycle(<<"0">>, 16) }

ValuePatterns ==
    { <<"E","0","A","8","B","1">>, <<"e","0","a","8","b","1">>,
      <<"0","0","A","A","B","B","C","C","D","D","E","E">>,
      <<"<C5>","<89>","a","b">> }

ValueRegions ==
    { Cycle(pat, n) : pat \in ValuePatterns, n \in 0..(2 * MaxValueBytes) }

LastElements ==
    { Element(t, l, v) :
        t \in KnownTagTexts, l \in LengthFields, v \in ValueRegions }
    \cup
    { Element(t, l, v) :
        t \in OtherTagTexts, l \in { << >>, <<"0","3">> },
        v \in { << >>, <<"E","0","A","8","B","1">> } }

\* Elements that decode, to stand before the last one.
LeadingElements ==
    { Element(<<"9","F","3","3">>, <<"0","3">>, <<"E","0","A","8","B","1">>),
      Element(<<"9","f","3","3">>, <<"8","1","0","2">>, <<"c","d","e","f">>) }

RECURSIVE Prefixes(_)
Prefixes(n) ==
    IF n = 0 THEN { << >> }
    ELSE Prefixes(n - 1) \cup
         { pre \o <<e>> : pre \in { q \in Prefixes(n - 1) : Len(q) = n - 1 },
                          e \in LeadingElements }

Inputs ==
    { << >> } \cup
    { pre \o <<e>> : pre \in Prefixes(MaxPrefixElements), e \in LastElements }

RECURSIVE Flatten(_)
Flatten(ps) ==
    IF ps = << >> THEN << >>
    ELSE ps[1].tag \o ps[1].len \o ps[1].val \o Flatten(Tail(ps))

\* ------------------------------------------------------------- parse_icc
\* loop_continues gone wrong: the loop stops two units early.
loop_continues_early(p, n) == p + 2 < n

\* Line 8: while i < icc.len().
loop_continues(p, n) == p < n

Init ==
    /\ parts \in Inputs
    /\ icc = Flatten(parts)
    /\ i = 0
    /\ start_of_element = 0
    /\ tag = << >>
    /\ entry = NoEntry
    /\ value_byte_length = 0
    /\ shift_pointer = 0
    /\ output_data = EmptyMap
    /\ pc = "tag"
    /\ result = Running

\* Lines 8-23: the loop test, the tag decoder and the registry lookup.
ReadTag ==
    /\ pc = "tag"
    /\ result = Running
    /\ loop_continues(i, Len(icc))
    /\ LET t == read_tag_text(icc, i)
           l == lookup(t.tag)
       IN  /\ start_of_element' = i
           /\ value_byte_length' = 0
           /\ shift_pointer' = 0
           /\ IF t.res # Running
              THEN /\ result' = t.res
                   /\ tag' = << >>
                   /\ entry' = NoEntry
                   /\ UNCHANGED <<i, pc>>
              ELSE IF l.res # Running
              THEN /\ result' = l.res
                   /\ tag' = t.tag
                   /\ entry' = NoEntry
                   /\ UNCHANGED <<i, pc>>
              ELSE /\ tag' = t.tag
                   /\ entry' = l.entry
                   /\ i' = i + Len(t.tag)
                   /\ pc' = "length"
                   /\ UNCHANGED result
    /\ UNCHANGED <<icc, parts, output_data>>

\* Lines 24-25: the length decoder on &icc[i..].
ReadLength ==
    /\ pc = "length"
    /\ result = Running
    /\ IF ~SliceOk(icc, i, Len(icc))
       THEN /\ result' = Panic
            /\ UNCHANGED <<i, pc, value_byte_length, shift_pointer>>
       ELSE LET u == unhexify_length(Slice(icc, i, Len(icc)))
            IN  IF u.res # Running
                THEN /\ result' = u.res
                     /\ UNCHANGED <<i, pc, value_byte_length, shift_pointer>>
                ELSE /\ value_byte_length' = u.length_in_bytes
                     /\ shift_pointer' = u.shift_pointer
                     /\ i' = after_length(i, u.shift_pointer)
                     /\ pc' = "value"
                     /\ UNCHANGED result
    /\ UNCHANGED <<icc, parts, start_of_element, tag, entry, output_data>>

\* Lines 26-36: the value extractor, and the cursor moved past the value.
ReadValue ==
    /\ pc = "value"
    /\ result = Running
    /\ LET v == read_value(icc, i, value_byte_length, entry, output_data)
       IN  /\ result' = v.res
           /\ output_data' = v.out
           /\ i' = v.i
           /\ pc' = IF v.res = Running THEN "tag" ELSE pc
    /\ UNCHANGED <<icc, parts, start_of_element, tag, entry,
                   value_byte_length, shift_pointer>>

\* Lines 8 and 38: the loop ends and Ok(output_data) is returned.
LoopExit ==
    /\ pc = "tag"
    /\ result = Running
    /\ ~loop_continues(i, Len(icc))
    /\ result' = OkResult
    /\ pc' = "exit"
    /\ UNCHANGED <<icc, parts, i, start_of_element, tag, entry,
                   value_byte_length, shift_pointer, output_data>>

Next == ReadTag \/ ReadLength \/ ReadValue \/ LoopExit

Spec == Init /\ [][Next]_vars

Done == result # Running

\* parse_icc as a function of its input: the loop from cursor p with the
\* map out, to the value returned.  On an error no map is returned.
RECURSIVE parse_from(_, _, _)
parse_from(s, p, out) ==
    IF ~loop_continues(p, Len(s)) THEN [res |-> OkResult, out |-> out]
    ELSE LET t == read_tag_text(s, p)
             l == lookup(t.tag)
             q == p + Len(t.tag)
             u == unhexify_length(Slice(s, q, Len(s)))
             v == read_value(s, after_length(q, u.shift_pointer),
                             u.length_in_bytes, l.entry, out)
         IN  IF t.res # Running THEN [res |-> t.res, out |-> EmptyMap]
             ELSE IF l.res # Running THEN [res |-> l.res, out |-> EmptyMap]
             ELSE IF ~SliceOk(s, q, Len(s)) THEN [res |-> Panic, out |-> EmptyMap]
             ELSE IF u.res # Running THEN [res |-> u.res, out |-> EmptyMap]
             ELSE IF v.res # Running THEN [res |-> v.res, out |-> EmptyMap]
             ELSE parse_from(s, v.i, v.out)

\* What the call in progress returned, once it has.
Returned ==
    [res |-> result, out |-> IF result = OkResult THEN output_data ELSE EmptyMap]

\* ==================================================================
\* The properties of parse_icc.  They describe the input by the way it was
\* assembled (parts) and in the words of the specification: a well-formed
\* element is a registered tag, a length field declaring L bytes with
\* 1 <= L <= max_length, and 2 * L hex digits.
\* ==================================================================
AllHex(s) == \A k \in 1..Len(s) : s[k] \in HexDigits

\* The upper-case form of hex text.
HexUpper(s) ==
    [k \in 1..Len(s) |->
        CASE s[k] = "a" -> "A" [] s[k] = "b" -> "B" [] s[k] = "c" -> "C"
          [] s[k] = "d" -> "D" [] s[k] = "e" -> "E" [] s[k] = "f" -> "F"
          [] s[k] = "x" -> "X" [] s[k] = "z" -> "Z"
          [] OTHER -> s[k]]

\* The value of a byte written as two hex digits, and -1 for any other text.
ByteValue(s) ==
    IF Len(s) = 2 /\ AllHex(s) THEN DigitVal(s[1]) * 16 + DigitVal(s[2]) ELSE -1

\* The largest length the statements compute; a longer one is only "huge".
Huge == 2 ^ 28

\* The big-endian value of hex digits, or Huge when it has more than seven
\* significant digits.
BigEndian(ds) ==
    IF Len(StripZeros(ds)) > 7 THEN Huge ELSE HexValue(StripZeros(ds))

IsKnownTag(t) == HexUpper(t) \in DOMAIN get_tag_data
TagEntry(t) == get_tag_data[HexUpper(t)]

\* A short-form length field: one byte below 128.
IsShortForm(l) == ByteValue(l) >= 0 /\ ByteValue(l) < 128

\* The count k of a long-form prefix byte (high bit set), and -1 otherwise.
LongCount(s) ==
    IF Len(s) >= 2 /\ ByteValue(SubSeq(s, 1, 2)) >= 128
    THEN ByteValue(SubSeq(s, 1, 2)) - 128 ELSE -1

\* A long-form length field: the prefix byte and exactly its k >= 1 bytes.
IsLongForm(l) ==
    /\ LongCount(l) >= 1
    /\ Len(l) = 2 + 2 * LongCount(l)
    /\ AllHex(l)

IsLengthField(l) == IsShortForm(l) \/ IsLongForm(l)

\* The number of bytes a length field declares.
Declared(l) ==
    IF IsShortForm(l) THEN ByteValue(l) ELSE BigEndian(SubSeq(l, 3, Len(l)))

\* Whether the value a long-form field declares fits in usize.
FitsUsize(l) == Len(StripZeros(SubSeq(l, 3, Len(l)))) <= UsizeHexDigits

WellFormedElement(e) ==
    /\ IsKnownTag(e.tag)
    /\ IsLengthField(e.len)
    /\ Declared(e.len) >= 1
    /\ Declared(e.len) <= TagEntry(e.tag).max_length
    /\ Len(e.val) = 2 * Declared(e.len)
    /\ AllHex(e.val)

WellFormedInput ==
    /\ parts # << >>
    /\ \A k \in 1..Len(parts) : WellFormedElement(parts[k])

\* The input's last element, the well-formed ones before it, and where the
\* last one starts.
Last == parts[Len(parts)]
Leading == SubSeq(parts, 1, Len(parts) - 1)
LeadingWellFormed ==
    /\ parts # << >>
    /\ \A k \in 1..(Len(parts) - 1) : WellFormedElement(parts[k])
LastStart == Len(Flatten(Leading))
\* What follows the last element's tag.
AfterLastTag == Last.len \o Last.val

NamesOf(ps) == { TagEntry(ps[k].tag).name : k \in 1..Len(ps) }
LastIndexOf(ps, n) ==
    CHOOSE k \in 1..Len(ps) :
        /\ TagEntry(ps[k].tag).name = n
        /\ \A j \in (k + 1)..Len(ps) : TagEntry(ps[j].tag).name # n
Occurrences(ps, n) ==
    Cardinality({ k \in 1..Len(ps) : TagEntry(ps[k].tag).name = n })

\* ------------------------------------------------------------------- C1
\* C1 as stated: a concatenation of well-formed elements decodes to Ok with
\* exactly one entry per element, each keyed by the element's registered
\* name and valued by the upper-cased hex text of that element's value.
C1_OneEntryPerElement ==
    (Done /\ WellFormedInput) =>
        /\ result = OkResult
        /\ Cardinality(DOMAIN output_data) = Len(parts)
        /\ \A k \in 1..Len(parts) :
               /\ TagEntry(parts[k].tag).name \in DOMAIN output_data
               /\ output_data[TagEntry(parts[k].tag).name] = HexUpper(parts[k].val)

\* C1 as amended: a concatenation of well-formed elements decodes to Ok with
\* exactly one entry per registered name among its elements, valued by the
\* upper-cased hex text of the value of the last element with that name.
C1_OneEntryPerName ==
    (Done /\ WellFormedInput) =>
        /\ result = OkResult
        /\ DOMAIN output_data = NamesOf(parts)
        /\ \A n \in NamesOf(parts) :
               output_data[n] = HexUpper(parts[LastIndexOf(parts, n)].val)

\* A well-formed input with a lower-case value has been decoded.
C1_Witness ==
    /\ Done
    /\ WellFormedInput
    /\ result = OkResult
    /\ \E k \in 1..Len(parts) : HexUpper(parts[k].val) # parts[k].val
    /\ \E n \in DOMAIN output_data : Len(output_data[n]) > 0

\* ------------------------------------------------------------------- C2
\* The first tag byte at the cursor is two hex digits with the low five
\* bits all set.
TwoByteFirst(s, p) ==
    /\ p + 2 <= Len(s)
    /\ ByteValue(SubSeq(s, p + 1, p + 2)) >= 0
    /\ ByteValue(SubSeq(s, p + 1, p + 2)) % 32 = 31

\* C2: when the first tag byte is valid hex with its low five bits set, the
\* next two characters are taken as the second tag byte without being
\* validated as hex; if the upper-cased four characters are not registered
\* the call returns BadTag carrying them as read, and never InvalidHex.
C2_BadTagAsRead ==
    (/\ Done
     /\ pc = "tag"
     /\ TwoByteFirst(icc, i)
     /\ SliceOk(icc, i + 2, i + 4)
     /\ ~IsKnownTag(SubSeq(icc, i + 1, i + 4)))
    => /\ result = BadTag(SubSeq(icc, i + 1, i + 4))
       /\ result.kind # "InvalidHex"

\* "9FXX03E0A8B1" has returned BadTag("9FXX").
C2_Witness ==
    /\ Done
    /\ icc = <<"9","F","X","X","0","3","E","0","A","8","B","1">>
    /\ result = BadTag(<<"9","F","X","X">>)

\* ------------------------------------------------------------------- C3
\* C3: every call ends in Ok or in one of BadTag, BadLength, InvalidHex and
\* Generic, also when a step would read past the end of the input.
C3_OkOrError ==
    Done => result.kind \in {"Ok", "BadTag", "BadLength", "InvalidHex",
                             "GenericError"}

\* ------------------------------------------------------------------- C4
\* C4: a registered tag and a well-formed length field declaring L >= 1
\* bytes, followed by fewer than 2 * L characters, fail with Generic.
C4_ShortValueIsGeneric ==
    (/\ Done
     /\ LeadingWellFormed
     /\ IsKnownTag(Last.tag)
     /\ IsLengthField(Last.len)
     /\ Declared(Last.len) >= 1
     /\ Declared(Last.len) < Huge
     /\ Len(Last.val) < 2 * Declared(Last.len))
    => result = GenericError

\* ------------------------------------------------------------------- C5
\* C5: a registered tag followed by a well-formed length field declaring
\* more bytes than the tag's max_length fails with Generic, whatever
\* follows; "9F330700AABBCCDDEE" is such an input.
C5_TooLongIsGeneric ==
    (/\ Done
     /\ LeadingWellFormed
     /\ IsKnownTag(Last.tag)
     /\ IsLengthField(Last.len)
     /\ Declared(Last.len) > TagEntry(Last.tag).max_length
     /\ Declared(Last.len) < Huge)
    => result = GenericError

\* ------------------------------------------------------------------- C6
\* The first tag byte at the cursor is two hex digits whose low five bits
\* are not all set.
OneByteFirst(s, p) ==
    /\ p + 2 <= Len(s)
    /\ ByteValue(SubSeq(s, p + 1, p + 2)) >= 0
    /\ ByteValue(SubSeq(s, p + 1, p + 2)) % 32 # 31

\* C6 as stated: such a tag is read as a single-byte tag, and "80" fails
\* with BadLength.
C6_BareTagIsBadLength ==
    /\ (tag # << >> /\ OneByteFirst(icc, start_of_element)) => Len(tag) = 2
    /\ (Done /\ icc = <<"8","0">>) => result.kind = "BadLength"

\* C6 as amended: such a tag is read as a single-byte tag, that is, the two
\* characters alone are looked up, and "80", which is not registered, fails
\* with BadTag("80") before any length is looked for.
C6_BareTagIsBadTag ==
    /\ (tag # << >> /\ OneByteFirst(icc, start_of_element)) =>
           /\ Len(tag) = 2
           /\ tag = SubSeq(icc, start_of_element + 1, start_of_element + 2)
    /\ (Done /\ pc = "tag" /\ OneByteFirst(icc, i)
             /\ ~IsKnownTag(SubSeq(icc, i + 1, i + 2))) =>
           result = BadTag(SubSeq(icc, i + 1, i + 2))
    /\ (Done /\ icc = <<"8","0">>) => result = BadTag(<<"8","0">>)

\* "80" has been decoded.
C6_Witness ==
    /\ Done
    /\ icc = <<"8","0">>
    /\ tag = <<"8","0">>
    /\ result.kind = "BadTag"

\* ------------------------------------------------------------------- C7
\* What follows the tag is a long-form prefix with count k and fewer than
\* 2 * k characters after it.
LongFormCutShort(s) == LongCount(s) >= 1 /\ Len(s) - 2 < 2 * LongCount(s)

\* What follows the tag starts with a length field that decodes to zero.
DecodesToZero(s) ==
    /\ Len(s) >= 2
    /\ \/ ByteValue(SubSeq(s, 1, 2)) = 0
       \/ LongCount(s) = 0
       \/ /\ LongCount(s) >= 1
          /\ Len(s) >= 2 + 2 * LongCount(s)
          /\ \A k \in 3..(2 + 2 * LongCount(s)) : s[k] = "0"

\* C7: after a registered tag the length decoder fails with BadLength when
\* fewer than two characters remain, when a long-form prefix is followed by
\* fewer than 2 * k characters, and when the decoded length is below 1.
C7_BadLength ==
    (/\ Done
     /\ LeadingWellFormed
     /\ IsKnownTag(Last.tag)
     /\ \/ Len(AfterLastTag) < 2
        \/ LongFormCutShort(AfterLastTag)
        \/ DecodesToZero(AfterLastTag))
    => result.kind = "BadLength"

\* ------------------------------------------------------------------- C8
\* The last element is being decoded, or its decoding has ended the call,
\* and it is a registered tag with a long-form length field whose k >= 1
\* length bytes are all there and not all zero.
AtLongForm ==
    /\ LeadingWellFormed
    /\ start_of_element = LastStart
    /\ pc \in {"length", "value"}
    /\ IsKnownTag(Last.tag)
    /\ IsLongForm(Last.len)
    /\ Declared(Last.len) >= 1

\* The last element's length field has been decoded to the big-endian value
\* of its k length bytes and the cursor has moved 2 + 2 * k past the tag.
LongFormDecoded ==
    /\ ~(Done /\ pc = "length")
    /\ pc = "value" =>
           /\ shift_pointer = 2 + 2 * LongCount(Last.len)
           /\ i = start_of_element + Len(tag) + 2 + 2 * LongCount(Last.len)
           /\ Declared(Last.len) < Huge => value_byte_length = Declared(Last.len)

\* The input with its last element's length field written in short form.
ShortFormByte(n) ==
    LET hex == <<"0","1","2","3","4","5","6","7","8","9",
                 "A","B","C","D","E","F">>
    IN  <<hex[(n \div 16) + 1], hex[(n % 16) + 1]>>
WithShortForm ==
    Flatten(Leading) \o Last.tag \o ShortFormByte(Declared(Last.len)) \o Last.val

\* A call that has returned returned what it returns on the same input
\* with the last element's length in short form.
SameAsShortForm ==
    (Done /\ Declared(Last.len) < 128) =>
        Returned = parse_from(WithShortForm, 0, EmptyMap)

C9_LastOccurrenceWins ==
    (Done /\ WellFormedInput) =>
        \A n \in NamesOf(parts) :
            Occurrences(parts, n) > 1 =>
                /\ result = OkResult
                /\ n \in DOMAIN output_data
                /\ output_data[n] = HexUpper(parts[Len(parts)].val)
                /\ \A k \in 1..Len(parts) :
                       TagEntry(parts[k].tag).name = n =>
                           \/ HexUpper(parts[k].val) = output_data[n]
                           \/ k < LastIndexOf(parts, n)

\* A well-formed input with the same tag twice, with two values, has been
\* decoded.
C9_Witness ==
    /\ Done
    /\ WellFormedInput
    /\ Len(parts) = 2
    /\ TagEntry(parts[1].tag).name = TagEntry(parts[2].tag).name
    /\ HexUpper(parts[1].val) # HexUpper(parts[2].val)
    /\ result = OkResult

\* ------------------------------------------------------------------ C10
\* What is left to do: the characters after the cursor, then the steps of
\* the element in hand, then the return.
Variant ==
    4 * (Len(icc) - i)
    + (CASE pc = "tag" -> 3 [] pc = "length" -> 2 [] pc = "value" -> 1
         [] OTHER -> 0)
    + (IF Done THEN 0 ELSE 1)

\* C10: the call ends (every step lowers Variant, which stays at or above
\* 0, so no run goes on for ever); the cursor starts at 0 and never moves
\* back; a completed element moves it by the tag's 2 or 4 characters, the
\* length field's characters and 2 * L value characters, L >= 1; and Ok is
\* returned only with the cursor on the end of the input.
C10_Terminates ==
    /\ i = 0
    /\ [][/\ i' >= i
          /\ Variant' < Variant
          /\ Variant' >= 0
          /\ (pc = "value" /\ pc' = "tag") =>
                 /\ Len(tag) \in {2, 4}
                 /\ value_byte_length >= 1
                 /\ i' = start_of_element + Len(tag) + shift_pointer
                             + 2 * value_byte_length
                 /\ i' > start_of_element
          /\ result' = OkResult => (pc = "tag" /\ i = Len(icc) /\ i' = i)]_vars

\* Two elements have been completed and Ok returned.
C10_Witness ==
    /\ result = OkResult
    /\ Len(parts) = 2
    /\ i = Len(icc)
    /\ start_of_element > 0

====
